---- MODULE Spec2Model ----
(***************************************************************************)
(* Model of bootloader/uboot.go: the uboot facade, its two environment     *)
(* variants (redundant / non-redundant), the path state kept in ubootBase  *)
(* and the facade operations.                                              *)
(*                                                                         *)
(* Strings that are paths are sequences of tokens, "/" being the separator *)
(* token: "/boot/uboot/" is <<"/", "boot", "/", "uboot", "/">> and the     *)
(* empty string is <<>>.  Variable names and values of the environment are *)
(* plain strings.                                                          *)
(***************************************************************************)
EXTENDS Integers, Sequences, FiniteSets, TLC

VARIABLES
    built,              \* a constructor has returned the facade
    variant,            \* which ubootCommon is embedded in the uboot struct
    rootdir,            \* ubootBase.rootdir
    basedir,            \* ubootBase.basedir
    ubootEnvFileName,   \* ubootBase.ubootEnvFileName
    files,              \* the environment files on disk: path -> content
    installs,           \* how often InstallBootConfig has been called
    last,               \* the call that ran last: arguments, result, effects
    aborted             \* the process died in a panic

vars == <<built, variant, rootdir, basedir, ubootEnvFileName,
          files, installs, last, aborted>>

-----------------------------------------------------------------------------
(* Bounds and input sets *)

\* longest list of names handed to GetBootVars
MaxNames == 2

\* most calls of InstallBootConfig in one run
MaxInstalls == 1

Keys == {"snap_mode", "snap_kernel"}

Values == {"", "try"}

Redundant == "ubootRedundEnv"

NonRedundant == "ubootNoRedundEnv"

RoleSole == "RoleSole"

RoleRecovery == "RoleRecovery"

RoleRunMode == "RoleRunMode"

Roles == {RoleSole, RoleRecovery, RoleRunMode}

\* a nil *Options
Nil == [isNil |-> TRUE]

OptionValues == {Nil} \cup [Role : Roles, NoSlashBoot : BOOLEAN]

RootDirs == {<<>>, <<"/", "r">>}

RecoverySystemDirs == {<<>>, <<"systems", "/", "20200101">>}

\* snap.PlaceInfo.Filename() of the kernel snaps the callers pass
SnapFilenames == {<<"pc-kernel_1.snap">>}

\* every map[string]string over Keys and Values
ValueMaps == UNION {[D -> Values] : D \in SUBSET Keys}

\* every names... list up to MaxNames
NameLists == UNION {[1..n -> Keys] : n \in 0..MaxNames}

-----------------------------------------------------------------------------
(* path/filepath *)

IsSep(t) == t = "/"

RECURSIVE JoinSep(_)
\* strings.Join(elems, "/")
JoinSep(elems) ==
    IF Len(elems) = 0 THEN <<>>
    ELSE IF Len(elems) = 1 THEN elems[1]
    ELSE elems[1] \o <<"/">> \o JoinSep(Tail(elems))

RECURSIVE Squeeze(_)
\* one separator for every run of separators
Squeeze(p) ==
    IF Len(p) <= 1 THEN p
    ELSE IF IsSep(p[1]) /\ IsSep(p[2]) THEN Squeeze(Tail(p))
    ELSE <<p[1]>> \o Squeeze(Tail(p))

\* filepath.Clean, for paths without "." and ".." elements
Clean(p) ==
    LET q == Squeeze(p) IN
    IF q = <<>> THEN <<".">>
    ELSE IF Len(q) > 1 /\ IsSep(q[Len(q)]) THEN SubSeq(q, 1, Len(q) - 1)
    ELSE q

\* filepath.Join: empty elements are ignored, the result is Cleaned, and
\* the result is "" when every element is empty
Join(elems) ==
    LET ne == SelectSeq(elems, LAMBDA e : e # <<>>) IN
    IF ne = <<>> THEN <<>> ELSE Clean(JoinSep(ne))

RECURSIVE LastSep(_)
\* index of the last separator of p, 0 when there is none
LastSep(p) ==
    IF p = <<>> THEN 0
    ELSE IF IsSep(p[Len(p)]) THEN Len(p)
    ELSE LastSep(SubSeq(p, 1, Len(p) - 1))

\* filepath.Dir
Dir(p) == Clean(SubSeq(p, 1, LastSep(p)))

-----------------------------------------------------------------------------
(* ubootBase *)

\* the result of a Go call that may panic: a value, or the panic
Val(v) == [panic |-> FALSE, v |-> v]

Panicked == [panic |-> TRUE, v |-> <<>>]

\* func (u *ubootBase) dir() string
dir(root, base) ==
    IF root = <<>> THEN Panicked ELSE Val(Join(<<root, base>>))

\* func (u *ubootBase) rootDir() string
rootDir(root) == root

\* func (u *ubootBase) envFile() string
envFile(root, base, fname) ==
    LET d == dir(root, base) IN
    IF d.panic THEN Panicked ELSE Val(Join(<<d.v, fname>>))

-----------------------------------------------------------------------------
(* the two variants *)

\* name()
name(v) == IF v = Redundant THEN <<"uboot">> ELSE <<"uboot-nr">>

DefaultBasedir(v) ==
    IF v = Redundant THEN <<"/", "boot", "/", "uboot", "/">>
    ELSE <<"/", "boot", "/", "uboot-nr", "/">>

DirectBasedir(v) ==
    IF v = Redundant THEN <<"/", "uboot", "/", "ubuntu", "/">>
    ELSE <<"/", "uboot-nr", "/", "ubuntu", "/">>

UbootEnv == <<"uboot.env">>

BootSel == <<"boot.sel">>

\* setDefaults() of ubootNoRedundEnv copied from ubootRedundEnv unchanged
setDefaults_copied(v, p) ==
    [p EXCEPT !.basedir = DefaultBasedir(Redundant), !.fname = UbootEnv]

\* setDefaults(): the path state it leaves, p being [rootdir, basedir, fname]
setDefaults(v, p) ==
    [p EXCEPT !.basedir = DefaultBasedir(v), !.fname = UbootEnv]

\* processBlOpts(blOpts) with the fallthrough of the first case left out
processBlOpts_noFallthrough(v, p, blOpts) ==
    IF blOpts = Nil THEN p
    ELSE IF blOpts.Role = RoleRecovery \/ blOpts.NoSlashBoot
         THEN [p EXCEPT !.basedir = DirectBasedir(v)]
    ELSE IF blOpts.Role = RoleRunMode
         THEN [p EXCEPT !.fname = BootSel]
    ELSE p

\* processBlOpts(blOpts): a switch whose first case falls through to the second
processBlOpts(v, p, blOpts) ==
    IF blOpts = Nil THEN p
    ELSE IF blOpts.Role = RoleRecovery \/ blOpts.NoSlashBoot
         THEN [p EXCEPT !.basedir = DirectBasedir(v), !.fname = BootSel]
    ELSE IF blOpts.Role = RoleRunMode
         THEN [p EXCEPT !.fname = BootSel]
    ELSE p

\* the struct fields as one record
PathState == [rootdir |-> rootdir, basedir |-> basedir, fname |-> ubootEnvFileName]

-----------------------------------------------------------------------------
(* ubootenv: the environment store, known here by its interface only *)

OpenBestEffort == "OpenBestEffort"

OpenNoRedundEnv == "OpenNoRedundEnv"

EmptyMap == [k \in {} |-> ""]

\* file content: an environment image, or bytes that are no environment
EnvImage(vs, size) == [kind |-> "env", vars |-> vs, size |-> size]

Garbage == [kind |-> "raw", vars |-> EmptyMap, size |-> 1]

\* ubootenv.Create / CreateWithFlags: a new, empty, unsaved environment
EnvCreate(fname, size) == [fname |-> fname, size |-> size, vars |-> EmptyMap]

\* whether ubootenv.OpenWithFlags finds a readable environment at fname
CanOpen(fs, fname) == fname \in DOMAIN fs /\ fs[fname].kind = "env"

\* ubootenv.OpenWithFlags, when CanOpen
EnvOpen(fs, fname) ==
    [fname |-> fname, size |-> fs[fname].size, vars |-> fs[fname].vars]

\* env.Get: an unset name reads as ""
EnvGet(env, k) == IF k \in DOMAIN env.vars THEN env.vars[k] ELSE ""

\* env.Set: the empty value unsets the name
EnvSet(env, k, v) ==
    [env EXCEPT !.vars =
        IF v = "" THEN [x \in DOMAIN env.vars \ {k} |-> env.vars[x]]
        ELSE [x \in DOMAIN env.vars \cup {k} |-> IF x = k THEN v ELSE env.vars[x]]]

\* env.Save, when it succeeds: the file at env.fname holds the environment
EnvSave(fs, env) ==
    [x \in DOMAIN fs \cup {env.fname} |->
        IF x = env.fname THEN EnvImage(env.vars, env.size) ELSE fs[x]]

\* a store call as the ubootenv package sees it
StoreCall(fn, fname, flags) == [fn |-> fn, fname |-> fname, flags |-> flags]

\* flags of the create made by createEnv
createEnvFlags(v) == IF v = Redundant THEN {} ELSE {OpenNoRedundEnv}

\* openEnvWithFlags passing ubootenv.OpenNoRedundEnv alone
openEnvFlags_dropCaller(v, flags) ==
    IF v = Redundant THEN flags ELSE {OpenNoRedundEnv}

\* flags of the open made by openEnvWithFlags(fname, flags)
openEnvFlags(v, flags) ==
    IF v = Redundant THEN flags ELSE flags \cup {OpenNoRedundEnv}

-----------------------------------------------------------------------------
(* what a call leaves behind for its caller and for the collaborators *)

\* no call of an external helper
NoHelper == [fn |-> "none", src |-> <<>>, dst |-> <<>>, assets |-> <<>>]

HelperCall(fn, src, dst, assets) ==
    [fn |-> fn, src |-> src, dst |-> dst, assets |-> assets]

NoCall ==
    [op |-> "none",
     \* arguments
     rootdir |-> <<>>, blOpts |-> Nil, gadget |-> "none", values |-> EmptyMap,
     names |-> <<>>, recoverySystemDir |-> <<>>, snap |-> <<>>,
     \* result: "ok" (nil error), "error" or "panic"
     res |-> "none", err |-> "", out |-> EmptyMap, outNil |-> TRUE,
     present |-> FALSE,
     \* effects: store calls in order, env.Set and env.Save calls, directory
     \* made by os.MkdirAll, helper called, collaborator that failed
     calls |-> <<>>, sets |-> 0, saves |-> 0, mkdir |-> <<>>,
     helper |-> NoHelper, fault |-> "none",
     \* the call before this one was the same call (operation and arguments),
     \* and then its result and its env.Save calls
     repeated |-> FALSE, prevRes |-> "none", prevSaves |-> 0]

\* the record of a call that starts now
Call(op) == [NoCall EXCEPT !.op = op]

\* same operation, same arguments
SameCall(a, b) ==
    /\ a.op = b.op
    /\ a.rootdir = b.rootdir
    /\ a.blOpts = b.blOpts
    /\ a.gadget = b.gadget
    /\ a.values = b.values
    /\ a.names = b.names
    /\ a.recoverySystemDir = b.recoverySystemDir
    /\ a.snap = b.snap

\* the record of a call that ends now
Done(call) ==
    IF SameCall(last, call)
    THEN [call EXCEPT !.repeated = TRUE, !.prevRes = last.res,
                      !.prevSaves = last.saves]
    ELSE call

ErrStat == "stat: no such file or directory"

ErrMkdir == "mkdir failed"

ErrCreate == "create failed"

ErrSave == "save failed"

ErrOpen == "open failed"

ErrCopy == "copy failed"

ErrHelper == "helper failed"

ErrNotSupported == "non-empty uboot.env not supported on UC20+ yet"

ErrRecoveryDirUnset == "internal error: recoverySystemDir unset"

-----------------------------------------------------------------------------
(* constructors *)

Init ==
    /\ built = FALSE
    /\ variant = "none"
    /\ rootdir = <<>>
    /\ basedir = <<>>
    /\ ubootEnvFileName = <<>>
    /\ files = EmptyMap
    /\ installs = 0
    /\ last = NoCall
    /\ aborted = FALSE

\* what both constructors do once the variant is embedded
Construct(op, v, root, blOpts) ==
    LET p0 == [rootdir |-> root, basedir |-> <<>>, fname |-> <<>>]
        p  == processBlOpts(v, setDefaults(v, p0), blOpts)
    IN  /\ ~built
        /\ built' = TRUE
        /\ variant' = v
        /\ rootdir' = p.rootdir
        /\ basedir' = p.basedir
        /\ ubootEnvFileName' = p.fname
        /\ last' = [Call(op) EXCEPT !.rootdir = root, !.blOpts = blOpts,
                                    !.res = "ok"]
        /\ UNCHANGED <<files, installs, aborted>>

\* func newUboot(rootdir string, blOpts *Options) Bootloader
newUboot(root, blOpts) == Construct("newUboot", Redundant, root, blOpts)

\* func newUbootNoRedundEnv(rootdir string, blOpts *Options) Bootloader
newUbootNoRedundEnv(root, blOpts) ==
    Construct("newUbootNoRedundEnv", NonRedundant, root, blOpts)

-----------------------------------------------------------------------------
(* facade operations *)

\* the facade exists and the process is alive
Callable == built /\ ~aborted

\* a call that ends in a panic: the process dies with the fields as p
Abort(p, call) ==
    /\ aborted' = TRUE
    /\ rootdir' = p.rootdir
    /\ basedir' = p.basedir
    /\ ubootEnvFileName' = p.fname
    /\ last' = Done([call EXCEPT !.res = "panic"])
    /\ UNCHANGED <<built, variant, files>>

\* a call that returns, leaving the fields as p and the disk as fs
Return(p, fs, call) ==
    /\ rootdir' = p.rootdir
    /\ basedir' = p.basedir
    /\ ubootEnvFileName' = p.fname
    /\ files' = fs
    /\ last' = Done(call)
    /\ UNCHANGED <<built, variant, aborted>>

Ok(call) == [call EXCEPT !.res = "ok"]

Fail(call, err) == [call EXCEPT !.res = "error", !.err = err]

\* what os.Stat says of the gadget file
GadgetFiles == {"missing", "empty", "env", "raw"}

GadgetDir == <<"/", "gadget">>

GadgetVars == [k \in {"snap_mode"} |-> "try"]

\* the bytes of a non-empty gadget file
GadgetContent(g) == IF g = "env" THEN EnvImage(GadgetVars, 8192) ELSE Garbage

\* size of the store InstallBootConfig creates
EnvSize == 4096

\* the test of line 119 taking NoSlashBoot for a supported recovery install
RecoveryRequested_unlessNoSlashBoot(blOpts) ==
    blOpts # Nil /\ blOpts.Role = RoleRecovery /\ ~blOpts.NoSlashBoot

\* the test of line 119
RecoveryRequested(blOpts) == blOpts # Nil /\ blOpts.Role = RoleRecovery

\* what InstallBootConfig does with the error of env.Save
SaveFailed(call) == Ok(call)

\* the st.Size() == 0 branch of InstallBootConfig
InstallEmpty(call, blOpts, fault) ==
    LET p    == processBlOpts(variant, PathState, blOpts)
        ef   == envFile(p.rootdir, p.basedir, p.fname)
        c1   == [call EXCEPT !.mkdir = Dir(ef.v)]
        c2   == [c1 EXCEPT !.calls = <<StoreCall("create", ef.v,
                                                createEnvFlags(variant))>>]
        env  == EnvCreate(ef.v, EnvSize)
        c3   == [c2 EXCEPT !.saves = 1]
    IN  IF ef.panic THEN Abort(p, call)
        ELSE IF fault = "mkdir"
             THEN Return(p, files, Fail([call EXCEPT !.fault = fault], ErrMkdir))
        ELSE IF fault = "create"
             THEN Return(p, files, Fail([c2 EXCEPT !.fault = fault], ErrCreate))
        ELSE IF fault = "save"
             THEN Return(p, files, SaveFailed([c3 EXCEPT !.fault = fault]))
        ELSE Return(p, EnvSave(files, env), Ok(c3))

\* the rest of InstallBootConfig, for a gadget file that is not empty
InstallNonEmpty(call, g, blOpts, fault) ==
    LET p  == setDefaults(variant, PathState)
        ef == envFile(p.rootdir, p.basedir, p.fname)
        gadgetFile == Join(<<GadgetDir, name(variant) \o <<".conf">>>>)
        c1 == [call EXCEPT !.helper =
                  HelperCall("genericInstallBootConfig", gadgetFile, ef.v, <<>>)]
    IN  IF RecoveryRequested(blOpts)
        THEN Return(p, files, Fail(call, ErrNotSupported))
        ELSE IF ef.panic THEN Abort(p, call)
        ELSE IF fault = "copy"
             THEN Return(p, files, Fail([c1 EXCEPT !.fault = fault], ErrCopy))
        ELSE Return(p, [x \in DOMAIN files \cup {ef.v} |->
                           IF x = ef.v THEN GadgetContent(g) ELSE files[x]],
                    Ok(c1))

\* the collaborators InstallBootConfig gets to, by what os.Stat says
InstallFaults(g) ==
    IF g = "missing" THEN {"none"}
    ELSE IF g = "empty" THEN {"none", "mkdir", "create", "save"}
    ELSE {"none", "copy"}

\* func (u *uboot) InstallBootConfig(gadgetDir string, blOpts *Options) error
InstallBootConfig(g, blOpts, fault) ==
    LET call == [Call("InstallBootConfig") EXCEPT !.gadget = g, !.blOpts = blOpts]
    IN  /\ Callable
        /\ installs < MaxInstalls
        /\ installs' = installs + 1
        /\ IF g = "missing" THEN Return(PathState, files, Fail(call, ErrStat))
           ELSE IF g = "empty" THEN InstallEmpty(call, blOpts, fault)
           ELSE InstallNonEmpty(call, g, blOpts, fault)

\* func (u *uboot) Present() (bool, error)
Present ==
    LET call == Call("Present")
        ef   == envFile(rootdir, basedir, ubootEnvFileName)
    IN  /\ Callable
        /\ UNCHANGED installs
        /\ IF ef.panic THEN Abort(PathState, call)
           ELSE Return(PathState, files,
                       Ok([call EXCEPT !.present = ef.v \in DOMAIN files]))

\* the test of line 142 left out: every entry is written
AlreadySet_never(env, k, v) == FALSE

\* the test of line 142 asking only whether the variable has a value
AlreadySet_anyValue(env, k, v) == EnvGet(env, k) # ""

\* the test of line 142: already set to the right value, nothing to do
AlreadySet(env, k, v) == EnvGet(env, k) = v

RECURSIVE SetLoop(_, _, _)
\* the loop of SetBootVars over the entries keys of values: the environment
\* it leaves, whether it is dirty, and how often env.Set ran
SetLoop(env, values, keys) ==
    IF keys = {} THEN [env |-> env, dirty |-> FALSE, sets |-> 0]
    ELSE LET k    == CHOOSE x \in keys : TRUE
             skip == AlreadySet(env, k, values[k])
             e1   == IF skip THEN env ELSE EnvSet(env, k, values[k])
             rest == SetLoop(e1, values, keys \ {k})
         IN  [env   |-> rest.env,
              dirty |-> ~skip \/ rest.dirty,
              sets  |-> (IF skip THEN 0 ELSE 1) + rest.sets]

\* func (u *uboot) SetBootVars(values map[string]string) error
SetBootVars(values, fault) ==
    LET call == [Call("SetBootVars") EXCEPT !.values = values]
        ef   == envFile(rootdir, basedir, ubootEnvFileName)
        c1   == [call EXCEPT !.calls = <<StoreCall("open", ef.v,
                                 openEnvFlags(variant, {OpenBestEffort}))>>]
        r    == SetLoop(EnvOpen(files, ef.v), values, DOMAIN values)
        c2   == [c1 EXCEPT !.sets = r.sets]
        c3   == [c2 EXCEPT !.saves = 1]
    IN  /\ Callable
        /\ UNCHANGED installs
        /\ IF ef.panic THEN Abort(PathState, call)
           ELSE IF ~CanOpen(files, ef.v)
                THEN Return(PathState, files, Fail(c1, ErrOpen))
           ELSE IF ~r.dirty THEN Return(PathState, files, Ok(c2))
           ELSE IF fault = "save"
                THEN Return(PathState, files,
                            Fail([c3 EXCEPT !.fault = fault], ErrSave))
           ELSE Return(PathState, EnvSave(files, r.env), Ok(c3))

RECURSIVE GetLoop_skipUnset(_, _, _)
\* the loop of GetBootVars leaving out the names that have no value
GetLoop_skipUnset(env, names, out) ==
    IF names = <<>> THEN out
    ELSE LET n == Head(names)
         IN  GetLoop_skipUnset(env, Tail(names),
                 IF EnvGet(env, n) = "" THEN out
                 ELSE [x \in DOMAIN out \cup {n} |->
                          IF x = n THEN EnvGet(env, n) ELSE out[x]])

RECURSIVE GetLoop(_, _, _)
\* the loop of GetBootVars: out[name] = env.Get(name) for each name in order
GetLoop(env, names, out) ==
    IF names = <<>> THEN out
    ELSE LET n == Head(names)
         IN  GetLoop(env, Tail(names),
                     [x \in DOMAIN out \cup {n} |->
                         IF x = n THEN EnvGet(env, n) ELSE out[x]])

\* func (u *uboot) GetBootVars(names ...string) (map[string]string, error)
GetBootVars(names) ==
    LET call == [Call("GetBootVars") EXCEPT !.names = names]
        ef   == envFile(rootdir, basedir, ubootEnvFileName)
        c1   == [call EXCEPT !.calls = <<StoreCall("open", ef.v,
                                 openEnvFlags(variant, {OpenBestEffort}))>>]
    IN  /\ Callable
        /\ UNCHANGED installs
        /\ IF ef.panic THEN Abort(PathState, call)
           ELSE IF ~CanOpen(files, ef.v)
                THEN Return(PathState, files, Fail(c1, ErrOpen))
           ELSE Return(PathState, files,
                       Ok([c1 EXCEPT !.outNil = FALSE,
                              !.out = GetLoop(EnvOpen(files, ef.v), names,
                                              EmptyMap)]))

Assets == <<"kernel.img", "initrd.img", "dtbs/*">>

\* a helper call that fails or not, as the collaborator decides
Helped(call, h, fault) ==
    IF fault = "helper"
    THEN Fail([call EXCEPT !.helper = h, !.fault = fault], ErrHelper)
    ELSE Ok([call EXCEPT !.helper = h])

\* func (u *uboot) ExtractKernelAssets(s snap.PlaceInfo, snapf snap.Container) error
ExtractKernelAssets(s, fault) ==
    LET call == [Call("ExtractKernelAssets") EXCEPT !.snap = s]
        d    == dir(rootdir, basedir)
        dstDir == Join(<<d.v, s>>)
    IN  /\ Callable
        /\ UNCHANGED installs
        /\ IF d.panic THEN Abort(PathState, call)
           ELSE Return(PathState, files,
                       Helped(call, HelperCall("extractKernelAssetsToBootDir",
                                               s, dstDir, Assets), fault))

\* the test of line 178 left out
RecoveryDirUnset_never(recoverySystemDir) == FALSE

\* the test of line 178
RecoveryDirUnset(recoverySystemDir) == recoverySystemDir = <<>>

\* func (u *uboot) ExtractRecoveryKernelAssets(recoverySystemDir string,
\*     s snap.PlaceInfo, snapf snap.Container) error
ExtractRecoveryKernelAssets(recoverySystemDir, s, fault) ==
    LET call == [Call("ExtractRecoveryKernelAssets") EXCEPT
                    !.recoverySystemDir = recoverySystemDir, !.snap = s]
        recoverySystemUbootKernelAssetsDir ==
            Join(<<rootDir(rootdir), recoverySystemDir, <<"kernel">>>>)
    IN  /\ Callable
        /\ UNCHANGED installs
        /\ IF RecoveryDirUnset(recoverySystemDir)
           THEN Return(PathState, files, Fail(call, ErrRecoveryDirUnset))
           ELSE Return(PathState, files,
                       Helped(call, HelperCall("extractKernelAssetsToBootDir", s,
                                   recoverySystemUbootKernelAssetsDir, Assets),
                              fault))

\* func (u *uboot) RemoveKernelAssets(s snap.PlaceInfo) error
RemoveKernelAssets(s, fault) ==
    LET call == [Call("RemoveKernelAssets") EXCEPT !.snap = s]
        d    == dir(rootdir, basedir)
    IN  /\ Callable
        /\ UNCHANGED installs
        /\ IF d.panic THEN Abort(PathState, call)
           ELSE Return(PathState, files,
                       Helped(call, HelperCall("removeKernelAssetsFromBootDir",
                                               s, d.v, <<>>), fault))

-----------------------------------------------------------------------------

Next ==
    \/ \E root \in RootDirs, o \in OptionValues : newUboot(root, o)
    \/ \E root \in RootDirs, o \in OptionValues : newUbootNoRedundEnv(root, o)
    \/ \E g \in GadgetFiles, o \in OptionValues :
          \E f \in InstallFaults(g) : InstallBootConfig(g, o, f)
    \/ Present
    \/ \E m \in ValueMaps, f \in {"none", "save"} : SetBootVars(m, f)
    \/ \E ns \in NameLists : GetBootVars(ns)
    \/ \E s \in SnapFilenames, f \in {"none", "helper"} : ExtractKernelAssets(s, f)
    \/ \E d \in RecoverySystemDirs, s \in SnapFilenames, f \in {"none", "helper"} :
            ExtractRecoveryKernelAssets(d, s, f)
    \/ \E s \in SnapFilenames, f \in {"none", "helper"} : RemoveKernelAssets(s, f)

Spec == Init /\ [][Next]_vars

-----------------------------------------------------------------------------
(* Properties *)

\* the path of the environment file, for a facade whose rootdir is set
CurrentEnvFile == Join(<<Join(<<rootdir, basedir>>), ubootEnvFileName>>)

\* the value a name has in the environment file at path f of disk fs
Stored(fs, f, k) == IF k \in DOMAIN fs[f].vars THEN fs[f].vars[k] ELSE ""

Constructors == {"newUboot", "newUbootNoRedundEnv"}

\* C1: right after newUboot / newUbootNoRedundEnv, for every Options value,
\* (basedir, filename) is the direct-partition basedir with boot.sel when
\* Role is Recovery or NoSlashBoot is set, the default basedir with boot.sel
\* when Role is RunMode, and the default basedir with uboot.env otherwise
\* (nil options included); NoSlashBoot with RunMode gives the direct basedir.
C1_ConstructorResolution ==
    last.op \in Constructors =>
        LET o  == last.blOpts
            nr == last.op = "newUbootNoRedundEnv"
            direct == IF nr THEN <<"/", "uboot-nr", "/", "ubuntu", "/">>
                      ELSE <<"/", "uboot", "/", "ubuntu", "/">>
            default == IF nr THEN <<"/", "boot", "/", "uboot-nr", "/">>
                       ELSE <<"/", "boot", "/", "uboot", "/">>
        IN  /\ variant = (IF nr THEN NonRedundant ELSE Redundant)
            /\ rootdir = last.rootdir
            /\ <<basedir, ubootEnvFileName>> =
                 IF o # Nil /\ (o.Role = RoleRecovery \/ o.NoSlashBoot)
                 THEN <<direct, <<"boot.sel">>>>
                 ELSE IF o # Nil /\ o.Role = RoleRunMode
                 THEN <<default, <<"boot.sel">>>>
                 ELSE <<default, <<"uboot.env">>>>

\* C1 witness: the non-redundant constructor was given RunMode with
\* NoSlashBoot and resolved to the direct-partition basedir
C1_Witness ==
    /\ last.op = "newUbootNoRedundEnv"
    /\ last.blOpts = [Role |-> RoleRunMode, NoSlashBoot |-> TRUE]
    /\ basedir = <<"/", "uboot-nr", "/", "ubuntu", "/">>
    /\ ubootEnvFileName = <<"boot.sel">>

\* C2 as stated: once the facade is constructed no facade operation changes
\* rootdir, basedir or the environment file name (stated for the facades
\* that were given a root, on which no operation aborts)
C2_PathStateReadOnly ==
    [][(built /\ rootdir # <<>>) =>
            /\ rootdir' = rootdir
            /\ basedir' = basedir
            /\ ubootEnvFileName' = ubootEnvFileName]_vars

\* C2 amended: once the facade is constructed no operation changes rootdir,
\* and no operation other than InstallBootConfig changes basedir or the
\* environment file name; InstallBootConfig leaves the defaults for a
\* non-empty gadget file, the result of processBlOpts on the current fields
\* for an empty one, and changes nothing when the gadget file is missing
C2_PathStateChangedOnlyByInstall ==
    [][built =>
        /\ rootdir' = rootdir
        /\ (last'.op # "InstallBootConfig" \/ last'.gadget = "missing") =>
              /\ basedir' = basedir
              /\ ubootEnvFileName' = ubootEnvFileName
        /\ (last'.op = "InstallBootConfig" /\ last'.gadget \in {"env", "raw"}) =>
              /\ basedir' = (IF variant = NonRedundant
                             THEN <<"/", "boot", "/", "uboot-nr", "/">>
                             ELSE <<"/", "boot", "/", "uboot", "/">>)
              /\ ubootEnvFileName' = <<"uboot.env">>
        /\ (last'.op = "InstallBootConfig" /\ last'.gadget = "empty") =>
              LET o == last'.blOpts
              IN  IF o # Nil /\ (o.Role = RoleRecovery \/ o.NoSlashBoot)
                  THEN /\ basedir' = (IF variant = NonRedundant
                                      THEN <<"/", "uboot-nr", "/", "ubuntu", "/">>
                                      ELSE <<"/", "uboot", "/", "ubuntu", "/">>)
                       /\ ubootEnvFileName' = <<"boot.sel">>
                  ELSE IF o # Nil /\ o.Role = RoleRunMode
                  THEN /\ basedir' = basedir
                       /\ ubootEnvFileName' = <<"boot.sel">>
                  ELSE /\ basedir' = basedir
                       /\ ubootEnvFileName' = ubootEnvFileName]_vars

\* C2 witness: a facade constructed with options was reset to the default
\* path by InstallBootConfig, and a SetBootVars that followed ran on that
\* path and left it alone
C2_Witness ==
    /\ built
    /\ rootdir # <<>>
    /\ installs = 1
    /\ last.op = "SetBootVars"
    /\ last.res = "ok"
    /\ last.saves = 1
    /\ basedir = DefaultBasedir(variant)
    /\ ubootEnvFileName = <<"uboot.env">>

\* C3 as stated: SetBootVars called twice in a row with the same map on the
\* same store makes exactly one save in the first call and none in the
\* second; every call makes at most one save (stated for a first call that
\* opened the store and returned success)
C3_TwiceOneSaveThenNone ==
    last.op = "SetBootVars" =>
        /\ last.saves <= 1
        /\ (last.repeated /\ last.prevRes = "ok") =>
              (last.prevSaves = 1 /\ last.saves = 0)

\* C3 amended: a SetBootVars call makes at most one save; on a store that
\* opens it makes one save when some entry of the map differs from the
\* store's value and otherwise no save, no env.Set and no change of the
\* disk; and when it is called twice in a row with the same map and the
\* first call returned success, the second call makes no save
C3_SaveOnlyWhenDirty ==
    [][last'.op = "SetBootVars" /\ last'.res # "panic" =>
        LET f == CurrentEnvFile
            m == last'.values
            differs == \E k \in DOMAIN m : Stored(files, f, k) # m[k]
        IN  /\ last'.saves <= 1
            /\ CanOpen(files, f) =>
                  /\ last'.saves = (IF differs THEN 1 ELSE 0)
                  /\ ~differs => (last'.sets = 0 /\ files' = files)
            /\ ~CanOpen(files, f) => (last'.saves = 0 /\ files' = files)
            /\ (last'.repeated /\ last'.prevRes = "ok") =>
                  (last'.saves = 0 /\ last'.sets = 0 /\ files' = files)]_vars

\* C3 witness: the second of two identical successful SetBootVars calls,
\* the first of which saved once, saved nothing
C3_Witness ==
    /\ last.op = "SetBootVars"
    /\ last.values # EmptyMap
    /\ last.repeated
    /\ last.prevRes = "ok"
    /\ last.prevSaves = 1
    /\ last.res = "ok"
    /\ last.saves = 0

\* C4 as stated: InstallBootConfig on an empty gadget file never calls the
\* generic installer, returns success only with a fresh 4096-byte store
\* saved at the environment file, and returns an error when making the
\* directory, creating the store or saving it fails
C4_EmptyGadgetInstallsStore ==
    (last.op = "InstallBootConfig" /\ last.gadget = "empty"
        /\ last.res # "panic") =>
        /\ last.helper = NoHelper
        /\ last.res = "ok" =>
              /\ CurrentEnvFile \in DOMAIN files
              /\ files[CurrentEnvFile] = EnvImage(EmptyMap, 4096)
              /\ last.mkdir = Dir(CurrentEnvFile)
              /\ last.saves = 1
        /\ last.fault \in {"mkdir", "create", "save"} => last.res = "error"

\* C5: InstallBootConfig with Role = Recovery and a non-empty gadget file
\* returns the "not supported" error; it makes no directory, creates, opens
\* and saves no store, does not call the generic installer and leaves the
\* disk as it was, for both variants and both values of NoSlashBoot
C5_RecoveryNonEmptyUnsupported ==
    [][(/\ last'.op = "InstallBootConfig"
        /\ last'.gadget \in {"env", "raw"}
        /\ last'.blOpts # Nil
        /\ last'.blOpts.Role = RoleRecovery) =>
        /\ last'.res = "error"
        /\ last'.err = ErrNotSupported
        /\ last'.mkdir = <<>>
        /\ last'.calls = <<>>
        /\ last'.saves = 0
        /\ last'.helper = NoHelper
        /\ files' = files]_vars

\* C5 witness: a non-redundant facade refused a non-empty gadget file for
\* Role = Recovery with NoSlashBoot set
C5_Witness ==
    /\ variant = NonRedundant
    /\ last.op = "InstallBootConfig"
    /\ last.gadget = "env"
    /\ last.blOpts = [Role |-> RoleRecovery, NoSlashBoot |-> TRUE]
    /\ last.err = ErrNotSupported

\* the operations that compute a path under the root
PathOps ==
    {"Present", "SetBootVars", "GetBootVars", "ExtractKernelAssets",
     "RemoveKernelAssets"}

\* C6 as stated: with rootdir empty every operation that computes a path
\* aborts: Present, SetBootVars, GetBootVars, ExtractKernelAssets,
\* RemoveKernelAssets, and ExtractRecoveryKernelAssets when it gets to
\* building its target from rootDir()
C6_EmptyRootdirAborts ==
    rootdir = <<>> =>
        /\ last.op \in PathOps => last.res = "panic"
        /\ (last.op = "ExtractRecoveryKernelAssets"
              /\ last.recoverySystemDir # <<>>) => last.res = "panic"

\* C7: GetBootVars on a store that opens returns a map whose keys are exactly
\* the requested names, each with the store's value, "" for a name the store
\* does not hold; on a store that does not open it returns the open error
\* and a nil map
C7_GetBootVarsResult ==
    (last.op = "GetBootVars" /\ last.res # "panic") =>
        LET f == CurrentEnvFile
        IN  IF CanOpen(files, f)
            THEN /\ last.res = "ok"
                 /\ ~last.outNil
                 /\ DOMAIN last.out = {last.names[i] : i \in DOMAIN last.names}
                 /\ \A n \in DOMAIN last.out : last.out[n] = Stored(files, f, n)
            ELSE /\ last.res = "error"
                 /\ last.err = ErrOpen
                 /\ last.outNil
                 /\ last.out = EmptyMap

\* C7 witness: GetBootVars returned "" for a name the store does not hold
\* next to the value of a name it holds
C7_Witness ==
    /\ last.op = "GetBootVars"
    /\ last.res = "ok"
    /\ \E n \in DOMAIN last.out :
          /\ n \notin DOMAIN files[CurrentEnvFile].vars
          /\ last.out[n] = ""
    /\ \E n \in DOMAIN last.out : last.out[n] = "try"

\* C8: ExtractRecoveryKernelAssets with an empty recoverySystemDir returns
\* the internal error without calling the extraction helper or the store
\* and without changing the fields or the disk; with a non-empty one the
\* helper is called for kernel.img, initrd.img, dtbs/* with the target
\* rootdir/recoverySystemDir/kernel
C8_ExtractRecoveryKernelAssets ==
    [][last'.op = "ExtractRecoveryKernelAssets" =>
        LET d == last'.recoverySystemDir
        IN  IF d = <<>>
            THEN /\ last'.res = "error"
                 /\ last'.err = ErrRecoveryDirUnset
                 /\ last'.helper = NoHelper
                 /\ last'.calls = <<>>
                 /\ last'.mkdir = <<>>
                 /\ UNCHANGED <<rootdir, basedir, ubootEnvFileName, files,
                                aborted>>
            ELSE /\ last'.helper.fn = "extractKernelAssetsToBootDir"
                 /\ last'.helper.assets = <<"kernel.img", "initrd.img", "dtbs/*">>
                 /\ last'.helper.dst =
                       (IF rootdir = <<>> THEN <<>> ELSE rootdir \o <<"/">>)
                          \o d \o <<"/", "kernel">>
                 /\ last'.res = (IF last'.fault = "helper" THEN "error" ELSE "ok")
                 /\ UNCHANGED <<rootdir, basedir, ubootEnvFileName, files,
                                aborted>>]_vars

\* C8 witness: ExtractRecoveryKernelAssets was called with an empty
\* recoverySystemDir on a facade with a root and returned the internal error
C8_Witness ==
    /\ rootdir # <<>>
    /\ last.op = "ExtractRecoveryKernelAssets"
    /\ last.recoverySystemDir = <<>>
    /\ last.err = ErrRecoveryDirUnset

\* C9: every create and open made by InstallBootConfig, SetBootVars and
\* GetBootVars carries the single-copy flag on the non-redundant variant and
\* never on the redundant one; SetBootVars and GetBootVars open the
\* environment file exactly once, with the best-effort flag
C9_StoreCallFlags ==
    /\ \A i \in DOMAIN last.calls :
          /\ (OpenNoRedundEnv \in last.calls[i].flags) = (variant = NonRedundant)
          /\ last.calls[i].fn = "open" => OpenBestEffort \in last.calls[i].flags
    /\ (last.op \in {"SetBootVars", "GetBootVars"} /\ last.res # "panic") =>
          /\ Len(last.calls) = 1
          /\ last.calls[1].fn = "open"
          /\ last.calls[1].fname = CurrentEnvFile
    /\ (last.op = "InstallBootConfig" /\ last.gadget = "empty"
          /\ last.res # "panic" /\ last.fault # "mkdir") =>
          /\ Len(last.calls) = 1
          /\ last.calls[1].fn = "create"
          /\ last.calls[1].fname = CurrentEnvFile

\* C9 witness: SetBootVars on a non-redundant facade opened the store with
\* both flags
C9_Witness ==
    /\ variant = NonRedundant
    /\ last.op = "SetBootVars"
    /\ last.res = "ok"
    /\ last.calls[1].flags = {OpenBestEffort, OpenNoRedundEnv}

\* C10: after a successful SetBootVars(values) the environment file holds
\* values[k] for every key k of values and what it held before for every
\* other name, no other file changed, and a GetBootVars of keys of values
\* that follows returns their values
C10_SetBootVarsPersists ==
    [][/\ (last'.op = "SetBootVars" /\ last'.res = "ok") =>
            LET f == CurrentEnvFile
                m == last'.values
            IN  /\ CanOpen(files, f)
                /\ CanOpen(files', f)
                /\ DOMAIN files' = DOMAIN files
                /\ \A x \in DOMAIN files \ {f} : files'[x] = files[x]
                /\ \A k \in Keys :
                      Stored(files', f, k) =
                         IF k \in DOMAIN m THEN m[k] ELSE Stored(files, f, k)
       /\ (/\ last.op = "SetBootVars" /\ last.res = "ok"
           /\ last'.op = "GetBootVars" /\ last'.res # "panic"
           /\ \A i \in DOMAIN last'.names : last'.names[i] \in DOMAIN last.values) =>
            /\ last'.res = "ok"
            /\ \A i \in DOMAIN last'.names :
                  last'.out[last'.names[i]] = last.values[last'.names[i]]]_vars

\* C10 witness: a successful SetBootVars saved a new value for one name
\* while another name of the store, not in the map, kept its value
C10_Witness ==
    /\ last.op = "SetBootVars"
    /\ last.res = "ok"
    /\ last.saves = 1
    /\ \E k \in Keys \ DOMAIN last.values :
          Stored(files, CurrentEnvFile, k) = "try"
    /\ \E k \in DOMAIN last.values : last.values[k] = "try"

====
